---- MODULE Spec2Model ----
(***************************************************************************)
(* Model of sbalance's usage aggregator, src/sbalance/slurm.py:            *)
(* Slurm.get_qos, Slurm.get_detail_usage and Slurm.get_usage.              *)
(*                                                                         *)
(* Text is modelled as sequences of one-character strings, so that the     *)
(* parsing steps of the code (split, index, replace, int) are computed and *)
(* can fail as they do in Python.  Python floats are modelled as IEEE-754  *)
(* binary64 values: a sign and the set of the exponents of the bits set in *)
(* the magnitude, every operation rounding to nearest-even on 53 bits.     *)
(***************************************************************************)
EXTENDS Integers, Sequences, FiniteSets, TLC

(***************************************************************************)
(* Bounds of the model.                                                    *)
(***************************************************************************)
\* longest list of QOS record lines the external source prints (coarse runs)
MaxLines == 2
\* longest list of job records sacct prints (per-user runs)
MaxJobs == 3

(***************************************************************************)
(* Python float (binary64) arithmetic.                                     *)
(***************************************************************************)
\* significant bits of a Python float
Prec == 53

Pow2(k) == 2 ^ k

MinOf(S) == CHOOSE e \in S : \A f \in S : e <= f
MaxOf(S) == 0 - MinOf({0 - e : e \in S})

Bit(S, e) == IF e \in S THEN 1 ELSE 0

\* the carry into bit e of A + B: some lower bit set in both, and one of
\* the two set at every bit between
CarryInto(A, B, e) ==
    IF \E g \in A \cap B : g < e /\ \A k \in (g + 1)..(e - 1) : k \in A \/ k \in B
    THEN 1 ELSE 0

\* A + B, on sets of bit exponents
AddMag(A, B) ==
    IF A = {} THEN B
    ELSE IF B = {} THEN A
    ELSE {e \in MinOf(A \cup B)..(MaxOf(A \cup B) + 1) :
             (Bit(A, e) + Bit(B, e) + CarryInto(A, B, e)) % 2 = 1}

\* the borrow into bit e of A - B: some lower bit set in B alone, and no bit
\* between set in A alone
BorrowInto(A, B, e) ==
    IF \E g \in B \ A : g < e /\ \A k \in (g + 1)..(e - 1) : k \notin A \/ k \in B
    THEN 1 ELSE 0

\* A - B, for A >= B
SubMag(A, B) ==
    IF B = {} THEN A
    ELSE {e \in MinOf(A \cup B)..MaxOf(A) :
             (Bit(A, e) + Bit(B, e) + BorrowInto(A, B, e)) % 2 = 1}

GreaterMag(A, B) ==
    LET D == (A \ B) \cup (B \ A) IN D # {} /\ MaxOf(D) \in A

\* S rounded at bit `cut`, its lowest bit kept
RoundAt(S, cut, sticky) ==
    IF /\ (cut - 1) \in S
       /\ \/ sticky
          \/ \E e \in S : e < cut - 1
          \/ cut \in S
    THEN AddMag({e \in S : e >= cut}, {cut})
    ELSE {e \in S : e >= cut}

\* round-to-nearest, ties-to-even, of the exact magnitude S (+ a nonzero rest
\* below every bit of S when sticky) to Prec significant bits
RoundMag(S, sticky) ==
    IF S = {} THEN {} ELSE RoundAt(S, MaxOf(S) - Prec + 1, sticky)

FZero == [neg |-> FALSE, mag |-> {}]
FOne  == [neg |-> FALSE, mag |-> {0}]

\* float(n) for a Python int 0 <= n < 2^31 (exact)
FromInt(n) == [neg |-> FALSE, mag |-> {e \in 0..30 : (n \div Pow2(e)) % 2 = 1}]

\* the quotient is developed Chunk bits at a time, Chunks times: enough for
\* Prec bits, a guard bit and the leading zeros of any n / d with d < 2^16
Chunk == 15
Chunks == 5

\* the bits of r/d (r < d < 2^16) from 2^(e-1) down to 2^(e - k * Chunk)
RECURSIVE QuotBits(_, _, _, _)
QuotBits(r, d, e, k) ==
    IF k = 0 \/ r = 0 THEN {}
    ELSE {e - Chunk + j : j \in {j \in 0..(Chunk - 1) :
                                    (((r * Pow2(Chunk)) \div d) \div Pow2(j)) % 2 = 1}}
         \cup QuotBits((r * Pow2(Chunk)) % d, d, e - Chunk, k - 1)

\* what is left of r/d below those bits
RECURSIVE QuotRest(_, _, _)
QuotRest(r, d, k) ==
    IF k = 0 \/ r = 0 THEN r ELSE QuotRest((r * Pow2(Chunk)) % d, d, k - 1)

\* float(n) / float(d) for Python ints n >= 0, 0 < d < 2^16
FDivInt(n, d) ==
    [neg |-> FALSE,
     mag |-> RoundMag(FromInt(n \div d).mag \cup QuotBits(n % d, d, 0, Chunks),
                      QuotRest(n % d, d, Chunks) # 0)]

FNeg(x) == IF x.mag = {} THEN x ELSE [neg |-> ~x.neg, mag |-> x.mag]

\* x + y
FAdd(x, y) ==
    IF x.neg = y.neg
    THEN [neg |-> x.neg, mag |-> RoundMag(AddMag(x.mag, y.mag), FALSE)]
    ELSE IF x.mag = y.mag THEN FZero
    ELSE IF GreaterMag(x.mag, y.mag)
         THEN [neg |-> x.neg, mag |-> RoundMag(SubMag(x.mag, y.mag), FALSE)]
         ELSE [neg |-> y.neg, mag |-> RoundMag(SubMag(y.mag, x.mag), FALSE)]

\* x - y
FSub(x, y) == FAdd(x, [neg |-> ~y.neg, mag |-> y.mag])

\* x > y
FGreater(x, y) ==
    IF x.neg = y.neg
    THEN IF x.neg THEN GreaterMag(y.mag, x.mag) ELSE GreaterMag(x.mag, y.mag)
    ELSE y.neg /\ (x.mag # {} \/ y.mag # {})

RECURSIVE SumPow2(_)
SumPow2(S) == IF S = {} THEN 0
              ELSE Pow2(MinOf(S)) + SumPow2(S \ {MinOf(S)})

\* math.ceil(x), for x > -1
Ceil(x) ==
    IF x.neg THEN 0 - SumPow2({e \in x.mag : e >= 0})
    ELSE SumPow2({e \in x.mag : e >= 0})
         + (IF \E e \in x.mag : e < 0 THEN 1 ELSE 0)

(***************************************************************************)
(* Python str and list operations, on sequences of one-character strings.  *)
(***************************************************************************)
\* list.index(x) / str.index(c): the first position, 0 when absent (ValueError)
IndexOf(s, x) ==
    IF \E i \in 1..Len(s) : s[i] = x
    THEN CHOOSE i \in 1..Len(s) : s[i] = x /\ \A j \in 1..(i - 1) : s[j] # x
    ELSE 0

\* str.split(c)
RECURSIVE SplitOn(_, _)
SplitOn(s, c) ==
    LET i == IndexOf(s, c)
    IN  IF i = 0 THEN <<s>>
        ELSE <<SubSeq(s, 1, i - 1)>> \o SplitOn(SubSeq(s, i + 1, Len(s)), c)

\* str.split(c, 1)
Split1(s, c) ==
    LET i == IndexOf(s, c)
    IN  IF i = 0 THEN <<s>>
        ELSE <<SubSeq(s, 1, i - 1), SubSeq(s, i + 1, Len(s))>>

\* str.replace(c, '')
RemoveChar(s, c) == SelectSeq(s, LAMBDA x : x # c)

Digits == <<"0", "1", "2", "3", "4", "5", "6", "7", "8", "9">>

\* whether int(s) succeeds (the texts of the model carry no sign or blank)
IsInt(s) == Len(s) > 0 /\ \A i \in 1..Len(s) : IndexOf(Digits, s[i]) # 0

\* int(s)
RECURSIVE ToInt(_)
ToInt(s) ==
    IF Len(s) = 0 THEN 0
    ELSE 10 * ToInt(SubSeq(s, 1, Len(s) - 1)) + IndexOf(Digits, s[Len(s)]) - 1

\* the characters of the model's texts, in code-point order
Ascii == <<" ", "(", ")", ",", "0", "1", "2", "3", "4", "5", "6", "7", "8",
           "9", "=", "A", "B", "C", "D", "E", "G", "J", "L", "M", "N", "O",
           "P", "Q", "R", "S", "T", "U", "W", "a", "b", "c", "d", "e", "g",
           "i", "l", "m", "n", "o", "p", "r", "s", "t", "u", "x", "y", "z">>

Ord(c) == IndexOf(Ascii, c)

\* s < t on Python str: lexical by code point, case-sensitive
RECURSIVE StrLess(_, _)
StrLess(s, t) ==
    IF Len(t) = 0 THEN FALSE
    ELSE IF Len(s) = 0 THEN TRUE
    ELSE IF s[1] # t[1] THEN Ord(s[1]) < Ord(t[1])
    ELSE StrLess(Tail(s), Tail(t))

\* ' '.join / ','.join
RECURSIVE Join(_, _)
Join(parts, c) ==
    IF Len(parts) = 0 THEN <<>>
    ELSE IF Len(parts) = 1 THEN parts[1]
    ELSE parts[1] \o <<c>> \o Join(Tail(parts), c)

(***************************************************************************)
(* Texts the code looks for.                                               *)
(***************************************************************************)
cQOS         == <<"Q", "O", "S">>
cGrpTRESMins == <<"G", "r", "p", "T", "R", "E", "S", "M", "i", "n", "s">>
cAccount     == <<"A", "c", "c", "o", "u", "n", "t">>
cbilling     == <<"b", "i", "l", "l", "i", "n", "g">>
cQOSRecords  == <<"Q", "O", "S", " ", "R", "e", "c", "o", "r", "d", "s">>
SACCTMGR_QOS_NODECAY_FLAG == <<"N", "o", "D", "e", "c", "a", "y">>
cN           == <<"N">>

(***************************************************************************)
(* What the external commands print.  A record of `scontrol show assoc -o` *)
(* is one line of blank-separated key=value tokens followed by the words   *)
(* "Account Limits=..."; GrpTRESMins is a comma list of tres=limit(used).  *)
(***************************************************************************)
cMaxWallPJ == <<"M", "a", "x", "W", "a", "l", "l", "P", "J">>
cLimits    == <<"L", "i", "m", "i", "t", "s", "=">>
ccpu       == <<"c", "p", "u">>
cUserRecords == <<"U", "s", "e", "r", " ", "R", "e", "c", "o", "r", "d", "s">>

Tres(key, limit, used) == key \o <<"=">> \o limit \o <<"(">> \o used \o <<")">>

QosRecord(qosval, grpval, account) ==
    Join(<<cQOS \o <<"=">> \o qosval,
           cGrpTRESMins \o <<"=">> \o grpval,
           cMaxWallPJ \o <<"=">>>>
         \o (IF account THEN <<cAccount, cLimits>> ELSE <<>>), " ")

n0    == <<"0">>
n1    == <<"1">>
n5    == <<"5">>
n100  == <<"1", "0", "0">>
n250  == <<"2", "5", "0">>
n400  == <<"4", "0", "0">>
n500  == <<"5", "0", "0">>
n1000 == <<"1", "0", "0", "0">>
n2000 == <<"2", "0", "0", "0">>

\* well-formed records: a (1000, 250 used), B (unlimited), c (2000), d (used
\* above the limit), e (limit 0), z (a QoS that get_qos does not list)
LineA == QosRecord(<<"a", "(", "1", ")">>,
                   Join(<<Tres(ccpu, cN, n0), Tres(cbilling, n1000, n250)>>, ","), TRUE)
LineB == QosRecord(<<"B", "(", "2", ")">>, Tres(cbilling, cN, n500), TRUE)
LineC == QosRecord(<<"c", "(", "3", ")">>, Tres(cbilling, n2000, n400), TRUE)
LineD == QosRecord(<<"d", "(", "4", ")">>, Tres(cbilling, n100, n250), TRUE)
LineE == QosRecord(<<"e", "(", "5", ")">>, Tres(cbilling, n0, n5), TRUE)
LineZ == QosRecord(<<"z", "(", "9", ")">>, Tres(cbilling, n100, n1), TRUE)
\* malformed records
LineNoAccount == QosRecord(<<"a", "(", "1", ")">>, Tres(cbilling, n1000, n250), FALSE)
LineNoParen   == QosRecord(<<"a">>, Tres(cbilling, n1000, n250), TRUE)
LineNoUsed    == QosRecord(<<"a", "(", "1", ")">>, cbilling \o <<"=">> \o n1000, TRUE)
\* records with an empty field
LineEmptyQos  == QosRecord(<<>>, Tres(cbilling, n100, n1), TRUE)
LineEmptyGrp  == QosRecord(<<"d", "(", "4", ")">>, <<>>, TRUE)

LineKinds == {LineA, LineB, LineD, LineE, LineZ, LineNoAccount, LineNoParen,
              LineNoUsed, LineEmptyQos, LineEmptyGrp}

SeqsUpTo(S, n) == UNION {[1..k -> S] : k \in 0..n}

\* the lines of a whole output: what precedes the records, then the records
Output(records) == <<cUserRecords, cQOSRecords>> \o records

\* outputs in coarse mode: any records; or no 'QOS Records' section at all
CoarseOutputs ==
    {Output(r) : r \in SeqsUpTo(LineKinds, MaxLines)}
    \cup {<<cUserRecords>>, <<cUserRecords, LineA>>}

\* outputs in per-user mode
DetailOutputs == {Output(<<LineA>>), Output(<<LineC, LineA>>), Output(<<LineA, LineB>>)}

\* `sacctmgr show qos -P`, one record per row (csv.DictReader, delimiter '|')
QosRow(name, grp, flags, descr) ==
    [Name |-> name, GrpTRESMins |-> grp, Flags |-> flags, Descr |-> descr]

cDenyNoDecay == <<"D", "e", "n", "y", "O", "n", "L", "i", "m", "i", "t", ",", "N", "o", "D", "e", "c", "a", "y">>

QosOutput ==
    <<QosRow(<<"a">>, cbilling \o <<"=">> \o n1000, SACCTMGR_QOS_NODECAY_FLAG, <<"p", "a">>),
      QosRow(<<"B">>, <<>>, SACCTMGR_QOS_NODECAY_FLAG, <<"p", "B">>),
      QosRow(<<"c">>, cbilling \o <<"=">> \o n2000, SACCTMGR_QOS_NODECAY_FLAG, <<"p", "c">>),
      QosRow(<<"d">>, Join(<<ccpu \o <<"=">> \o n5, cbilling \o <<"=">> \o n100>>, ","),
             SACCTMGR_QOS_NODECAY_FLAG, <<"p", "d">>),
      QosRow(<<"e">>, cbilling \o <<"=">> \o n0, SACCTMGR_QOS_NODECAY_FLAG, <<"p", "e">>),
      QosRow(<<"z">>, cbilling \o <<"=">> \o n100, cDenyNoDecay, <<"p", "z">>),
      QosRow(<<"n">>, <<>>, <<>>, <<"p", "n">>)>>

\* `sacct -aXP`, one record per job
Job(id, qosn, user, account, tres, elapsed) ==
    [JobID |-> id, QOS |-> qosn, User |-> user, Account |-> account,
     AllocTRES |-> tres, ElapsedRaw |-> elapsed]

u1 == <<"u", "1">>
u2 == <<"u", "2">>
u3 == <<"u", "3">>
p1 == <<"p", "1">>
p2 == <<"p", "2">>
b1 == cbilling \o <<"=", "1">>

JobKinds ==
    {Job(1, <<"a">>, u1, p1, Join(<<b1, ccpu \o <<"=", "4">>>>, ","), <<"2">>),
     Job(2, <<"a">>, u1, p1, b1, <<"2", "3">>),
     Job(3, <<"a">>, u1, <<"a">>, b1, <<"3", "5">>),
     Job(4, <<"a">>, u2, p2, b1, <<"3", "0">>),
     Job(5, <<"c">>, u1, p1, cbilling \o <<"=", "1", "8", "0", "2", "4">>, <<"1">>),
     Job(6, <<"c">>, u2, p1, cbilling \o <<"=", "6", "0", "0", "6">>, <<"1">>),
     Job(7, <<"a">>, u3, p1, cbilling \o <<"=", "0">>, <<"5">>),
     Job(8, <<"a">>, u1, p2, b1, <<"0">>),
     Job(9, <<"a">>, u1, p1, b1, <<>>),
     Job(10, <<"a">>, u3, p1, cbilling \o <<"=", "4">>, <<"6", "0">>)}

\* job lists: each job at most once
JobLists ==
    {j \in SeqsUpTo(JobKinds, MaxJobs) :
        \A x, y \in 1..Len(j) : x # y => j[x] # j[y]}

(***************************************************************************)
(* Python values of changing type: a field of a row holds a str, an int or *)
(* a float.                                                                *)
(***************************************************************************)
Str(x) == [t |-> "str", v |-> x]
Int_(n) == [t |-> "int", v |-> n]
Flt(x) == [t |-> "float", v |-> x]

SU_UNLIMITED == "unlimited"
SERVICE_HOUR_FACTOR == 7680
FactorCompute == 128 * 1 * 60
FactorGpu     == 4 * 96 * 60
FactorMemory  == 128 * 4 * 60

\* float(n) / d for a Python int n of either sign
FDivSigned(n, d) == IF n < 0 THEN FNeg(FDivInt(0 - n, d)) ELSE FDivInt(n, d)

\* a dict built from <<key, value>> pairs, a later pair replacing an earlier
DictOf(pairs) ==
    [k \in {pairs[j][1] : j \in 1..Len(pairs)} |->
        pairs[CHOOSE j \in 1..Len(pairs) :
                 /\ pairs[j][1] = k
                 /\ \A m \in (j + 1)..Len(pairs) : pairs[m][1] # k][2]]

EmptyDict == [k \in {} |-> 0]

(***************************************************************************)
(* The resource list of get_qos (GrpTRESMins) and of get_detail_usage      *)
(* (AllocTRES): "a=1,b=2" into a dict, billing as an int.                  *)
(***************************************************************************)
ParseTres(s) ==
    LET parts == SplitOn(s, ",")
        rs    == [j \in 1..Len(parts) |-> SplitOn(parts[j], "=")]
        good  == SelectSeq(rs, LAMBDA r : Len(r) = 2)
    IN  IF \E j \in 1..Len(good) : good[j][1] = cbilling /\ ~IsInt(good[j][2])
        THEN [exc |-> "ValueError", dict |-> EmptyDict]
        ELSE [exc |-> "",
              dict |-> DictOf([j \in 1..Len(good) |->
                          <<good[j][1],
                            IF good[j][1] = cbilling THEN Int_(ToInt(good[j][2]))
                            ELSE Str(good[j][2])>>])]

(***************************************************************************)
(* Slurm.get_qos: the QoS whose Flags field is NoDecay, by name.           *)
(***************************************************************************)
NoDecayRow(row) == row.Flags = SACCTMGR_QOS_NODECAY_FLAG

RECURSIVE get_qos(_, _)
get_qos(rows, qos) ==
    IF Len(rows) = 0 THEN [exc |-> "", qos |-> qos]
    ELSE IF ~NoDecayRow(rows[1]) THEN get_qos(Tail(rows), qos)
    ELSE LET res == ParseTres(rows[1].GrpTRESMins)
             row == [rows[1] EXCEPT !.GrpTRESMins = res.dict]
         IN  IF res.exc # "" THEN [exc |-> res.exc, qos |-> qos]
             ELSE get_qos(Tail(rows),
                          [k \in DOMAIN qos \cup {row.Name} |->
                              IF k = row.Name THEN row ELSE qos[k]])

(***************************************************************************)
(* Slurm.get_detail_usage: billing summed per QoS and user.  A dict of     *)
(* users is the sequence of its values in insertion order.                 *)
(***************************************************************************)
\* row['billing'] = billing * ElapsedRaw / 60.0
JobBilling(billing, elapsed) == FDivInt(billing * elapsed, 60)

UserIndex(users, user) ==
    IF \E j \in 1..Len(users) : users[j].user = user
    THEN CHOOSE j \in 1..Len(users) : users[j].user = user
    ELSE 0

\* one job record added to usage_dict
AddJob(row, d) ==
    LET tres == ParseTres(row.AllocTRES)
    IN  IF tres.exc # "" THEN [exc |-> tres.exc, d |-> d]
        ELSE IF ~IsInt(row.ElapsedRaw) THEN [exc |-> "ValueError", d |-> d]
        ELSE IF ~(ToInt(row.ElapsedRaw) > 0 /\ cbilling \in DOMAIN tres.dict)
        THEN [exc |-> "", d |-> d]
        ELSE LET b     == JobBilling(tres.dict[cbilling].v, ToInt(row.ElapsedRaw))
                 old   == IF row.QOS \in DOMAIN d THEN d[row.QOS] ELSE <<>>
                 users == IF UserIndex(old, row.User) # 0 THEN old
                          ELSE Append(old, [user |-> row.User,
                                            account |-> row.Account,
                                            billing |-> FZero])
                 j     == UserIndex(users, row.User)
                 new   == [users EXCEPT ![j].billing = FAdd(@, b)]
             IN  [exc |-> "",
                  d |-> [k \in DOMAIN d \cup {row.QOS} |->
                            IF k = row.QOS THEN new ELSE d[k]]]

RECURSIVE get_detail_usage(_, _)
get_detail_usage(rows, d) ==
    IF Len(rows) = 0 THEN [exc |-> "", d |-> d]
    ELSE LET r == AddJob(rows[1], d)
         IN  IF r.exc # "" THEN r ELSE get_detail_usage(Tail(rows), r.d)

(***************************************************************************)
(* Slurm.get_usage, the body of the loop over the QOS records.             *)
(***************************************************************************)
\* configs: the key=value tokens before the word Account, as a dict
Configs(record, account_idx) ==
    DictOf([j \in 1..(account_idx - 1) |->
               LET x == Split1(record[j], "=")
               IN  <<x[1], IF Len(x) = 2 THEN x[2] ELSE <<>>>>])

\* the keys of GrpTRESMins in the order the dict holds them
RECURSIVE KeyOrder(_, _)
KeyOrder(xs, seen) ==
    IF Len(xs) = 0 THEN seen
    ELSE KeyOrder(Tail(xs),
                  IF IndexOf(seen, xs[1][1]) # 0 THEN seen ELSE Append(seen, xs[1][1]))

\* what converting "limit(used" raises, "" when nothing
ConvExc(g) ==
    IF g[1] # cN /\ ~IsInt(g[1]) THEN "ValueError"
    ELSE IF Len(g) < 2 THEN "IndexError"
    ELSE IF ~IsInt(g[2]) THEN "ValueError"
    ELSE ""

\* grp_tres_min of a non-empty GrpTRESMins field
ParseGrpTresMin(s) ==
    LET parts == SplitOn(s, ",")
        xs    == [j \in 1..Len(parts) |-> SplitOn(parts[j], "=")]
    IN  IF \E j \in 1..Len(xs) : Len(xs[j]) < 2
        THEN [exc |-> "IndexError", val |-> EmptyDict]
        ELSE LET raw  == DictOf([j \in 1..Len(xs) |->
                            <<xs[j][1], SplitOn(RemoveChar(xs[j][2], ")"), "(")>>])
                 keys == KeyOrder(xs, <<>>)
                 bad  == SelectSeq(keys, LAMBDA k : ConvExc(raw[k]) # "")
             IN  IF Len(bad) > 0
                 THEN [exc |-> ConvExc(raw[bad[1]]), val |-> EmptyDict]
                 ELSE [exc |-> "",
                       val |-> [k \in DOMAIN raw |->
                                  [limit |-> IF raw[k][1] = cN THEN Str("N")
                                             ELSE Int_(ToInt(raw[k][1])),
                                   used  |-> ToInt(raw[k][2])]]]

\* functools.reduce(lambda val, k: val + users[k]['billing'], users, 0)
RECURSIVE SumBilling(_, _)
SumBilling(users, val) ==
    IF Len(users) = 0 THEN val
    ELSE SumBilling(Tail(users), FAdd(val, users[1].billing))

\* a variant that rounds the sum down
DetailUsedRoundedDown(users) == 0 - Ceil(FNeg(SumBilling(users, FZero)))

\* the account's used amount in per-user mode
DetailUsed(users) == Ceil(SumBilling(users, FZero))

\* a variant that computes the remaining amount of an unlimited row as if the
\* limit were a number
UnlimitedFieldsComputed(used) ==
    [su_alloc             |-> Str(SU_UNLIMITED),
     su_remaining         |-> Int_(0 - used),
     percent_used         |-> Str("-"),
     percent_remaining    |-> Str("-"),
     su_used_compute      |-> Flt(FDivInt(used, FactorCompute)),
     su_alloc_compute     |-> Str(SU_UNLIMITED),
     su_remaining_compute |-> Str("-"),
     su_used_gpu          |-> Flt(FDivInt(used, FactorGpu)),
     su_alloc_gpu         |-> Str(SU_UNLIMITED),
     su_remaining_gpu     |-> Str("-"),
     su_used_memory       |-> Flt(FDivInt(used, FactorMemory)),
     su_alloc_memory      |-> Str(SU_UNLIMITED),
     su_remaining_memory  |-> Str("-"),
     sh_alloc             |-> Str(SU_UNLIMITED),
     sh_remaining         |-> Str("-")]

\* the fields of a row whose limit is 'N'
UnlimitedFields(used) ==
    [su_alloc             |-> Str(SU_UNLIMITED),
     su_remaining         |-> Str("-"),
     percent_used         |-> Str("-"),
     percent_remaining    |-> Str("-"),
     su_used_compute      |-> Flt(FDivInt(used, FactorCompute)),
     su_alloc_compute     |-> Str(SU_UNLIMITED),
     su_remaining_compute |-> Str("-"),
     su_used_gpu          |-> Flt(FDivInt(used, FactorGpu)),
     su_alloc_gpu         |-> Str(SU_UNLIMITED),
     su_remaining_gpu     |-> Str("-"),
     su_used_memory       |-> Flt(FDivInt(used, FactorMemory)),
     su_alloc_memory      |-> Str(SU_UNLIMITED),
     su_remaining_memory  |-> Str("-"),
     sh_alloc             |-> Str(SU_UNLIMITED),
     sh_remaining         |-> Str("-")]

\* a variant on a scale of 0 to 100
PercentRemainingOfHundred(percent_used) == FSub(FromInt(100), percent_used)

\* qos_usage['percent_remaining'] = 1.0 - qos_usage['percent_used']
PercentRemaining(percent_used) == FSub(FOne, percent_used)

\* a variant whose percent_used is the share left, not the share used
NumericFieldsShareLeft(limit, used) ==
    [su_alloc             |-> Int_(limit),
     su_remaining         |-> Int_(limit - used),
     percent_used         |-> Flt(FDivSigned(limit - used, limit)),
     percent_remaining    |-> Flt(FSub(FOne, FDivSigned(limit - used, limit))),
     su_used_compute      |-> Flt(FDivInt(used, FactorCompute)),
     su_alloc_compute     |-> Flt(FDivInt(limit, FactorCompute)),
     su_remaining_compute |-> Flt(FDivSigned(limit - used, FactorCompute)),
     su_used_gpu          |-> Flt(FDivInt(used, FactorGpu)),
     su_alloc_gpu         |-> Flt(FDivInt(limit, FactorGpu)),
     su_remaining_gpu     |-> Flt(FDivSigned(limit - used, FactorGpu)),
     su_used_memory       |-> Flt(FDivInt(used, FactorMemory)),
     su_alloc_memory      |-> Flt(FDivInt(limit, FactorMemory)),
     su_remaining_memory  |-> Flt(FDivSigned(limit - used, FactorMemory)),
     sh_alloc             |-> Flt(FDivInt(limit, SERVICE_HOUR_FACTOR)),
     sh_remaining         |-> Flt(FDivSigned(limit - used, SERVICE_HOUR_FACTOR))]

\* the fields of a row with a numeric limit, limit # 0
NumericFields(limit, used) ==
    [su_alloc             |-> Int_(limit),
     su_remaining         |-> Int_(limit - used),
     percent_used         |-> Flt(FDivInt(used, limit)),
     percent_remaining    |-> Flt(PercentRemaining(FDivInt(used, limit))),
     su_used_compute      |-> Flt(FDivInt(used, FactorCompute)),
     su_alloc_compute     |-> Flt(FDivInt(limit, FactorCompute)),
     su_remaining_compute |-> Flt(FDivSigned(limit - used, FactorCompute)),
     su_used_gpu          |-> Flt(FDivInt(used, FactorGpu)),
     su_alloc_gpu         |-> Flt(FDivInt(limit, FactorGpu)),
     su_remaining_gpu     |-> Flt(FDivSigned(limit - used, FactorGpu)),
     su_used_memory       |-> Flt(FDivInt(used, FactorMemory)),
     su_alloc_memory      |-> Flt(FDivInt(limit, FactorMemory)),
     su_remaining_memory  |-> Flt(FDivSigned(limit - used, FactorMemory)),
     sh_alloc             |-> Flt(FDivInt(limit, SERVICE_HOUR_FACTOR)),
     sh_remaining         |-> Flt(FDivSigned(limit - used, SERVICE_HOUR_FACTOR))]

\* a variant that rounds the billing down
UserFieldsRoundedDown(entry, used) ==
    [user         |-> entry.user,
     account      |-> entry.account,
     billing      |-> entry.billing,
     su_used      |-> 0 - Ceil(FNeg(entry.billing)),
     sh_used      |-> FDivInt(0 - Ceil(FNeg(entry.billing)), SERVICE_HOUR_FACTOR),
     percent_used |-> FDivInt(0 - Ceil(FNeg(entry.billing)), used)]

\* a user's entry of detail_usage with su_used, sh_used and percent_used set
\* (used # 0)
UserFields(entry, used) ==
    [user         |-> entry.user,
     account      |-> entry.account,
     billing      |-> entry.billing,
     su_used      |-> Ceil(entry.billing),
     sh_used      |-> FDivInt(Ceil(entry.billing), SERVICE_HOUR_FACTOR),
     percent_used |-> FDivInt(Ceil(entry.billing), used)]

\* a variant that sorts by the rounded su_used
RECURSIVE SortUsersBySuUsed(_)
SortUsersBySuUsed(users) ==
    IF Len(users) <= 1 THEN users
    ELSE LET rest == SortUsersBySuUsed(SubSeq(users, 1, Len(users) - 1))
             x    == users[Len(users)]
             k    == Cardinality({j \in 1..Len(rest) : x.su_used <= rest[j].su_used})
         IN  SubSeq(rest, 1, k) \o <<x>> \o SubSeq(rest, k + 1, Len(rest))

\* list.sort(reverse=True, key=lambda x: x['billing']): stable, descending
RECURSIVE SortUsers(_)
SortUsers(users) ==
    IF Len(users) <= 1 THEN users
    ELSE LET rest == SortUsers(SubSeq(users, 1, Len(users) - 1))
             x    == users[Len(users)]
             k    == Cardinality({j \in 1..Len(rest) :
                         ~FGreater(x.billing, rest[j].billing)})
         IN  SubSeq(rest, 1, k) \o <<x>> \o SubSeq(rest, k + 1, Len(rest))

\* a variant that leaves the rows in the order of the records
RowsAsListed(rows) == rows

\* usage.sort(key=lambda x: x["account"]): stable, ascending
RECURSIVE SortByAccount(_)
SortByAccount(rows) ==
    IF Len(rows) <= 1 THEN rows
    ELSE LET rest == SortByAccount(SubSeq(rows, 1, Len(rows) - 1))
             x    == rows[Len(rows)]
             k    == Cardinality({j \in 1..Len(rest) :
                         ~StrLess(x.account, rest[j].account)})
         IN  SubSeq(rest, 1, k) \o <<x>> \o SubSeq(rest, k + 1, Len(rest))

Raise(e) == [exc |-> e]

\* a variant whose rows hold no description
QosUsageWithoutDescription(qn, descr, limit, used) ==
    [account     |-> qn,
     su_used     |-> Int_(used),
     sh_used     |-> Flt(FDivInt(used, SERVICE_HOUR_FACTOR))]
    @@ (IF limit.t = "str" THEN UnlimitedFields(used)
        ELSE NumericFields(limit.v, used))

\* lines 188-216: qos_usage before the users are added
QosUsage(qn, descr, limit, used) ==
    [account     |-> qn,
     description |-> descr,
     su_used     |-> Int_(used),
     sh_used     |-> Flt(FDivInt(used, SERVICE_HOUR_FACTOR))]
    @@ (IF limit.t = "str" THEN UnlimitedFields(used)
        ELSE NumericFields(limit.v, used))

\* lines 218-228: the users added, and what the iteration leaves behind
WithUsers(sacct, detail, qn, g, row, us) ==
    [exc    |-> "",
     g      |-> g,
     detail |-> IF sacct /\ qn \in DOMAIN detail THEN [detail EXCEPT ![qn] = us]
                ELSE detail,
     row    |-> IF sacct THEN row @@ [users |-> SortUsers(us)] ELSE row]

\* lines 188-228, with grp_tres_min (g) as lines 181-186 left it
MakeRow(sacct, qosd, detail, qn, g) ==
    IF g[cbilling].limit.t = "int" /\ g[cbilling].limit.v = 0
    THEN Raise("ZeroDivisionError")
    ELSE IF sacct /\ qn \in DOMAIN detail /\ g[cbilling].used = 0
    THEN Raise("ZeroDivisionError")
    ELSE WithUsers(sacct, detail, qn, g,
                   QosUsage(qn, qosd[qn].Descr, g[cbilling].limit, g[cbilling].used),
                   IF sacct /\ qn \in DOMAIN detail
                   THEN [j \in 1..Len(detail[qn]) |->
                           UserFields(detail[qn][j], g[cbilling].used)]
                   ELSE <<>>)

\* lines 181-186: in per-user mode the used amount comes from detail_usage
SetUsed(sacct, detail, qn, g) ==
    IF ~sacct THEN g
    ELSE [g EXCEPT ![cbilling].used =
             IF qn \in DOMAIN detail THEN DetailUsed(detail[qn]) ELSE 0]

\* lines 181-228, once qos_name (qn) and grp_tres_min (g) are what lines
\* 171-179 left them; qb and gb tell whether each is bound at all
BuildRow(sacct, qosd, detail, qn, qb, g, gb) ==
    IF ~qb THEN Raise("UnboundLocalError")
    ELSE IF sacct /\ ~gb THEN Raise("UnboundLocalError")
    ELSE IF sacct /\ cbilling \notin DOMAIN g THEN Raise("KeyError")
    ELSE IF qn \notin DOMAIN qosd THEN Raise("KeyError")
    ELSE IF ~gb THEN Raise("UnboundLocalError")
    ELSE IF cbilling \notin DOMAIN g THEN Raise("KeyError")
    ELSE MakeRow(sacct, qosd, detail, qn, SetUsed(sacct, detail, qn, g))

\* the locals after lines 171-179, then the rest of the iteration
WithLocals(sacct, qosd, detail, qn, qb, pg, gb) ==
    IF pg.exc # "" THEN Raise(pg.exc)
    ELSE [qos_name |-> qn, qos_name_bound |-> qb, grp_tres_min_bound |-> gb]
         @@ BuildRow(sacct, qosd, detail, qn, qb, pg.val, gb)

\* lines 171-228, configs given
WithConfigs(configs, sacct, qosd, detail, qn, qb, g, gb) ==
    IF cQOS \notin DOMAIN configs THEN Raise("KeyError")
    ELSE IF configs[cQOS] # <<>> /\ IndexOf(configs[cQOS], "(") = 0
    THEN Raise("ValueError")
    ELSE IF cGrpTRESMins \notin DOMAIN configs THEN Raise("KeyError")
    ELSE WithLocals(sacct, qosd, detail,
                    IF configs[cQOS] # <<>>
                    THEN SubSeq(configs[cQOS], 1, IndexOf(configs[cQOS], "(") - 1)
                    ELSE qn,
                    qb \/ configs[cQOS] # <<>>,
                    IF configs[cGrpTRESMins] # <<>>
                    THEN ParseGrpTresMin(configs[cGrpTRESMins])
                    ELSE [exc |-> "", val |-> g],
                    gb \/ configs[cGrpTRESMins] # <<>>)

\* lines 164-228, the line split into record
WithRecord(record, sacct, qosd, detail, qn, qb, g, gb) ==
    IF IndexOf(record, cAccount) = 0 THEN Raise("ValueError")
    ELSE WithConfigs(Configs(record, IndexOf(record, cAccount)),
                     sacct, qosd, detail, qn, qb, g, gb)

\* lines 163-228 for one line of usage_qos_raw: either exc, or the row and
\* the values the iteration leaves in qos_name, grp_tres_min, detail_usage
LoopBody(line, sacct, qosd, detail, qn, qb, g, gb) ==
    WithRecord(SplitOn(line, " "), sacct, qosd, detail, qn, qb, g, gb)

(***************************************************************************)
(* The state of one run of Slurm.get_usage.                                *)
(***************************************************************************)
VARIABLES
    use_sacct,          \* the argument of get_usage
    sacct_out,          \* the job records sacct prints
    lines,              \* the lines scontrol prints
    pc,                 \* where the run stands
    qos,                \* the result of get_qos
    detail_usage,       \* the result of get_detail_usage
    usage_qos_raw,      \* lines[usage_qos_idx+1:]
    idx,                \* the record the loop is at
    qos_name,           \* the loop's local qos_name
    qos_name_bound,     \* whether it has been assigned
    grp_tres_min,       \* the loop's local grp_tres_min
    grp_tres_min_bound, \* whether it has been assigned
    usage,              \* the rows so far
    ret,                \* what get_usage returned: "" (nothing yet), "None", "list"
    exc                 \* the exception that ended the run, "" when none

vars == <<use_sacct, sacct_out, lines, pc, qos, detail_usage, usage_qos_raw, idx,
          qos_name, qos_name_bound, grp_tres_min, grp_tres_min_bound, usage,
          ret, exc>>

inputs == <<use_sacct, sacct_out, lines>>
locals == <<qos_name, qos_name_bound, grp_tres_min, grp_tres_min_bound>>

Init ==
    /\ \/ use_sacct = FALSE /\ sacct_out = <<>> /\ lines \in CoarseOutputs
       \/ use_sacct = TRUE /\ sacct_out \in JobLists /\ lines \in DetailOutputs
    /\ pc = "get_qos"
    /\ qos = EmptyDict
    /\ detail_usage = EmptyDict
    /\ usage_qos_raw = <<>>
    /\ idx = 1
    /\ qos_name = <<>>
    /\ qos_name_bound = FALSE
    /\ grp_tres_min = EmptyDict
    /\ grp_tres_min_bound = FALSE
    /\ usage = <<>>
    /\ ret = ""
    /\ exc = ""

\* line 133
GetQos ==
    /\ pc = "get_qos"
    /\ \E r \in {get_qos(QosOutput, EmptyDict)} :
           IF r.exc # ""
           THEN pc' = "raised" /\ exc' = r.exc /\ UNCHANGED qos
           ELSE /\ qos' = r.qos
                /\ pc' = IF use_sacct THEN "get_detail_usage" ELSE "records"
                /\ UNCHANGED exc
    /\ UNCHANGED <<inputs, locals, detail_usage, usage_qos_raw, idx, usage, ret>>

\* lines 139-141
GetDetailUsage ==
    /\ pc = "get_detail_usage"
    /\ \E r \in {get_detail_usage(sacct_out, EmptyDict)} :
           IF r.exc # ""
           THEN pc' = "raised" /\ exc' = r.exc /\ UNCHANGED detail_usage
           ELSE detail_usage' = r.d /\ pc' = "records" /\ UNCHANGED exc
    /\ UNCHANGED <<inputs, locals, qos, usage_qos_raw, idx, usage, ret>>

\* lines 146-161
FindRecords ==
    /\ pc = "records"
    /\ LET usage_qos_idx == IndexOf(lines, cQOSRecords)
       IN  IF usage_qos_idx = 0
           THEN /\ pc' = "raised" /\ exc' = "ValueError"
                /\ UNCHANGED <<usage_qos_raw, ret>>
           ELSE /\ usage_qos_raw' = SubSeq(lines, usage_qos_idx + 1, Len(lines))
                /\ IF Len(usage_qos_raw') < 1
                   THEN pc' = "done" /\ ret' = "None"
                   ELSE pc' = "loop" /\ UNCHANGED ret
                /\ UNCHANGED exc
    /\ UNCHANGED <<inputs, locals, qos, detail_usage, idx, usage>>

\* lines 162-228, one iteration
ProcessRecord ==
    /\ pc = "loop"
    /\ idx <= Len(usage_qos_raw)
    /\ \E r \in {LoopBody(usage_qos_raw[idx], use_sacct, qos, detail_usage,
                         qos_name, qos_name_bound, grp_tres_min, grp_tres_min_bound)} :
           IF r.exc # ""
           THEN /\ pc' = "raised" /\ exc' = r.exc
                /\ UNCHANGED <<locals, detail_usage, idx, usage>>
           ELSE /\ usage' = Append(usage, r.row)
                /\ detail_usage' = r.detail
                /\ qos_name' = r.qos_name
                /\ qos_name_bound' = r.qos_name_bound
                /\ grp_tres_min' = r.g
                /\ grp_tres_min_bound' = r.grp_tres_min_bound
                /\ idx' = idx + 1
                /\ UNCHANGED <<pc, exc>>
    /\ UNCHANGED <<inputs, qos, usage_qos_raw, ret>>

\* lines 229-234
Return ==
    /\ pc = "loop"
    /\ idx > Len(usage_qos_raw)
    /\ usage' = SortByAccount(usage)
    /\ ret' = "list"
    /\ pc' = "done"
    /\ UNCHANGED <<inputs, locals, qos, detail_usage, usage_qos_raw, idx, exc>>

Next == GetQos \/ GetDetailUsage \/ FindRecords \/ ProcessRecord \/ Return

Spec == Init /\ [][Next]_vars

(***************************************************************************)
(* fields.py: the columns of the report.  Of a FieldConfig the model keeps *)
(* the row key it reads (field) and the number format of its numeric       *)
(* template (field_disp), "" when the template has none.                   *)
(***************************************************************************)
FieldConfig(field, field_disp) == [field |-> field, field_disp |-> field_disp]

FIELD_CONFIGS ==
    [key \in {"account", "description", "allocation", "remaining", "used",
              "allocation_system", "remaining_system", "used_system",
              "used_percent", "remaining_percent",
              "allocation_compute", "remaining_compute", "used_compute",
              "allocation_gpu", "remaining_gpu", "used_gpu",
              "allocation_memory", "remaining_memory", "used_memory"} |->
        CASE key = "account"            -> FieldConfig("account", "")
          [] key = "description"        -> FieldConfig("description", "")
          [] key = "allocation"         -> FieldConfig("sh_alloc", ".2f")
          [] key = "remaining"          -> FieldConfig("sh_remaining", ".2f")
          [] key = "used"               -> FieldConfig("sh_used", ".2f")
          [] key = "allocation_system"  -> FieldConfig("su_alloc", ".0f")
          [] key = "remaining_system"   -> FieldConfig("su_remaining", ".0f")
          [] key = "used_system"        -> FieldConfig("su_used", ".0f")
          [] key = "used_percent"       -> FieldConfig("percent_used", ".2%")
          [] key = "remaining_percent"  -> FieldConfig("percent_remaining", ".2%")
          [] key = "allocation_compute" -> FieldConfig("su_alloc_compute", ".2f")
          [] key = "remaining_compute"  -> FieldConfig("su_remaining_compute", ".2f")
          [] key = "used_compute"       -> FieldConfig("su_used_compute", ".2f")
          [] key = "allocation_gpu"     -> FieldConfig("su_alloc_gpu", ".2f")
          [] key = "remaining_gpu"      -> FieldConfig("su_remaining_gpu", ".2f")
          [] key = "used_gpu"           -> FieldConfig("su_used_gpu", ".2f")
          [] key = "allocation_memory"  -> FieldConfig("su_alloc_memory", ".2f")
          [] key = "remaining_memory"   -> FieldConfig("su_remaining_memory", ".2f")
          [] key = "used_memory"        -> FieldConfig("su_used_memory", ".2f")]

FIELD_PER_USER_CONFIGS ==
    [key \in {"account", "user", "used_percent", "used"} |->
        CASE key = "account"      -> FieldConfig("account", "")
          [] key = "user"         -> FieldConfig("user", "")
          [] key = "used_percent" -> FieldConfig("percent_used", ".2%")
          [] key = "used"         -> FieldConfig("sh_used", ".2f")]

(***************************************************************************)
(* What get_usage is claimed to do, stated over the run.                   *)
(***************************************************************************)
\* the rows built so far; once Returned, the rows of the result
Rows == {usage[j] : j \in 1..Len(usage)}
Returned == pc = "done" /\ ret = "list"
Unlimited(r) == r.su_alloc = Str(SU_UNLIMITED)
Numeric(r) == r.su_alloc.t = "int"
Sentinel == Str("-")

\* the record the loop is at, and the billing limit its GrpTRESMins field
\* spells: "N", digits, or <<>> when the field gives none
AtRecord == pc \in {"loop", "raised"} /\ idx <= Len(usage_qos_raw)
LimitText(line) ==
    LET record == SplitOn(line, " ")
        cfg    == IF IndexOf(record, cAccount) = 0 THEN EmptyDict
                  ELSE Configs(record, IndexOf(record, cAccount))
        grp    == IF cGrpTRESMins \in DOMAIN cfg THEN cfg[cGrpTRESMins] ELSE <<>>
        parts  == SplitOn(grp, ",")
        mine   == SelectSeq(parts, LAMBDA x :
                      /\ Len(x) > Len(cbilling)
                      /\ SubSeq(x, 1, Len(cbilling) + 1) = cbilling \o <<"=">>)
    IN  IF Len(mine) = 0 THEN <<>>
        ELSE LET val == Split1(mine[Len(mine)], "=")[2]
             IN  IF IndexOf(val, "(") = 0 THEN val
                 ELSE SubSeq(val, 1, IndexOf(val, "(") - 1)
ZeroLimit(line) == IsInt(LimitText(line)) /\ ToInt(LimitText(line)) = 0

\* C1: every row whose allocation is unlimited carries the sentinel '-' in
\* su_remaining, percent_used, percent_remaining, sh_remaining and every
\* su_remaining_<partition>, and a record whose limit is 'N' never ends the
\* run with a division by zero (coarse mode, where the limit is the only
\* divisor that comes from the record).
C1_UnlimitedSentinels ==
    /\ \A r \in Rows : Unlimited(r) =>
          /\ r.su_remaining = Sentinel
          /\ r.percent_used = Sentinel
          /\ r.percent_remaining = Sentinel
          /\ r.sh_remaining = Sentinel
          /\ r.su_remaining_compute = Sentinel
          /\ r.su_remaining_gpu = Sentinel
          /\ r.su_remaining_memory = Sentinel
    /\ (~use_sacct /\ exc = "ZeroDivisionError") =>
          LimitText(usage_qos_raw[idx]) # cN

\* C1 witness: account B, limit N and 500 used, is in the returned list
C1_Witness ==
    /\ Returned
    /\ \E r \in Rows : Unlimited(r) /\ r.account = <<"B">> /\ r.su_used = Int_(500)

\* C2: a record whose limit is zero does not end the run with a division by
\* zero; it gets a row whose percent_used is the sentinel.
C2_ZeroLimitGuarded ==
    /\ (AtRecord /\ ZeroLimit(usage_qos_raw[idx])) => exc # "ZeroDivisionError"
    /\ \A r \in Rows : r.su_alloc = Int_(0) => r.percent_used = Sentinel

\* C3: every row with a numeric allocation has su_remaining = su_alloc -
\* su_used, percent_used = su_used / su_alloc and percent_remaining = 1 -
\* percent_used, in coarse and in per-user mode; limit 1000 and used 250 give
\* 750, 0.25 and 0.75.
Quarter == [neg |-> FALSE, mag |-> {0 - 2}]
ThreeQuarters == [neg |-> FALSE, mag |-> {0 - 2, 0 - 1}]
C3_NumericRow ==
    \A r \in Rows : Numeric(r) =>
        /\ r.su_remaining = Int_(r.su_alloc.v - r.su_used.v)
        /\ r.percent_used = Flt(FDivInt(r.su_used.v, r.su_alloc.v))
        /\ r.percent_remaining = Flt(FSub(FOne, r.percent_used.v))
        /\ (r.su_alloc = Int_(1000) /\ r.su_used = Int_(250)) =>
              /\ r.su_remaining = Int_(750)
              /\ r.percent_used = Flt(Quarter)
              /\ r.percent_remaining = Flt(ThreeQuarters)

\* C3 witness: account a, limit 1000 and 250 used, is in the returned list
C3_Witness ==
    /\ Returned
    /\ \E r \in Rows : r.account = <<"a">> /\ r.su_alloc = Int_(1000)
                       /\ r.su_used = Int_(250)

\* C4: in every row with a numeric allocation percent_used and
\* percent_remaining add up to exactly 1, also when more is used than the
\* limit allows.
C4_PercentsSumToOne ==
    \A r \in Rows : Numeric(r) =>
        FAdd(r.percent_used.v, r.percent_remaining.v) = FOne

\* C4 witness: a returned row whose used amount exceeds its limit, so that
\* percent_remaining is negative
C4_Witness ==
    /\ Returned
    /\ \E r \in Rows : Numeric(r) /\ r.su_used.v > r.su_alloc.v
                       /\ r.percent_remaining.v.neg

\* the scontrol output holds no QOS record: no line after 'QOS Records', or
\* no 'QOS Records' line at all
NoRecords ==
    \/ IndexOf(lines, cQOSRecords) = 0
    \/ IndexOf(lines, cQOSRecords) = Len(lines)

\* C5: with no QOS record in the output get_usage raises nothing and returns
\* an empty list.
C5_EmptyList ==
    NoRecords => /\ exc = ""
                 /\ pc = "done" => (ret = "list" /\ usage = <<>>)

\* the malformed records: no Account token, a QOS field without '(', a
\* GrpTRESMins entry without '(used)'
MalformedRecords == {LineNoAccount, LineNoParen, LineNoUsed}

\* C6: a malformed record is skipped: it never ends the run with an
\* exception, and the run returns a list.
C6_MalformedSkipped ==
    /\ (AtRecord /\ usage_qos_raw[idx] \in MalformedRecords) => pc # "raised"
    /\ (pc = "done" /\ \E j \in 1..Len(usage_qos_raw) :
                          usage_qos_raw[j] \in MalformedRecords) => ret = "list"

\* C7: the returned list is sorted non-decreasing by account, compared
\* character code by character code, whatever the order of the records.
C7_SortedByAccount ==
    Returned => \A i, j \in 1..Len(usage) :
                    i < j => ~StrLess(usage[j].account, usage[i].account)

\* C7 witness: the records list account a before account B, the returned
\* list holds B before a
C7_Witness ==
    /\ Returned
    /\ usage_qos_raw = <<LineA, LineB>>
    /\ usage[1].account = <<"B">>
    /\ usage[2].account = <<"a">>

\* C8: in per-user mode the users of every row are sorted non-increasing by
\* raw billing.
C8_UsersByRawBilling ==
    \A r \in Rows : use_sacct =>
        \A i, j \in 1..Len(r.users) :
            i < j => ~FGreater(r.users[j].billing, r.users[i].billing)

\* C8 witness: two users with the same su_used, listed by raw billing and not
\* in the order their jobs came
C8_Witness ==
    /\ Returned
    /\ use_sacct
    /\ \E r \in Rows :
          /\ Len(r.users) = 2
          /\ r.users[1].su_used = r.users[2].su_used
          /\ FGreater(r.users[1].billing, r.users[2].billing)
          /\ detail_usage[r.account][1].user = r.users[2].user

\* the raw billing of the jobs of one QoS and user, summed in the order sacct
\* lists them
RECURSIVE RawBilling(_, _, _, _)
RawBilling(jobs, qosn, user, val) ==
    IF Len(jobs) = 0 THEN val
    ELSE LET job == jobs[1]
             b   == ParseTres(job.AllocTRES).dict
         IN  RawBilling(Tail(jobs), qosn, user,
                 IF /\ job.QOS = qosn /\ job.User = user
                    /\ ToInt(job.ElapsedRaw) > 0 /\ cbilling \in DOMAIN b
                 THEN FAdd(val, FDivInt(b[cbilling].v * ToInt(job.ElapsedRaw), 60))
                 ELSE val)

\* n is the least integer not below x, x >= 0
IsCeiling(n, x) ==
    /\ ~FGreater(x, FromInt(n))
    /\ IF n = 0 THEN x = FZero ELSE FGreater(x, FromInt(n - 1))

\* C9: in per-user mode every user row holds the user's summed raw billing,
\* su_used is its ceiling, and percent_used is su_used divided by the
\* account row's su_used; raw billing 300.4 and 100.1 give 301 and 101.
C9_UserCeiling ==
    \A r \in Rows : use_sacct =>
        \A j \in 1..Len(r.users) :
            LET u == r.users[j]
            IN  /\ u.billing = RawBilling(sacct_out, r.account, u.user, FZero)
                /\ IsCeiling(u.su_used, u.billing)
                /\ u.percent_used = FDivInt(u.su_used, r.su_used.v)
                /\ u.billing = FDivInt(3004, 10) => u.su_used = 301
                /\ u.billing = FDivInt(1001, 10) => u.su_used = 101

\* C9 witness: account c is returned with two users of raw billing 300.4 and
\* 100.1, in that order, and 401 used by the account
C9_Witness ==
    /\ Returned
    /\ use_sacct
    /\ \E r \in Rows :
          /\ r.account = <<"c">>
          /\ r.su_used = Int_(401)
          /\ Len(r.users) = 2
          /\ r.users[1].billing = FDivInt(3004, 10)
          /\ r.users[1].su_used = 301
          /\ r.users[2].billing = FDivInt(1001, 10)
          /\ r.users[2].su_used = 101

\* the job lists that hold the same records in another order
Reorderings(jobs) ==
    {p \in JobLists : /\ Len(p) = Len(jobs)
                      /\ {p[j] : j \in 1..Len(p)} = {jobs[j] : j \in 1..Len(jobs)}}

\* the summed billing per (QoS, user), and the summed total per QoS
UserBillings(d) ==
    UNION {{<<q, d[q][j].user, d[q][j].billing>> : j \in 1..Len(d[q])} : q \in DOMAIN d}
AccountTotals(d) == [q \in DOMAIN d |-> SumBilling(d[q], FZero)]

\* C10: get_detail_usage gives the same sums per (QoS, user) and the same
\* totals per QoS for every order of the same job records.
C10_OrderIndependent ==
    (use_sacct /\ pc = "records") =>
        \A p \in Reorderings(sacct_out) :
            /\ UserBillings(get_detail_usage(p, EmptyDict).d) = UserBillings(detail_usage)
            /\ AccountTotals(get_detail_usage(p, EmptyDict).d) = AccountTotals(detail_usage)

\* 0 <= x <= 1
InUnitInterval(x) == (~x.neg \/ x = FZero) /\ ~FGreater(x, FOne)

\* C11: in every row percent_used and percent_remaining are the sentinel when
\* the allocation is unlimited and fractions between 0 and 1 otherwise, also
\* when more is used than the limit allows.
C11_PercentInUnitInterval ==
    \A r \in Rows :
        /\ Unlimited(r) => r.percent_used = Sentinel /\ r.percent_remaining = Sentinel
        /\ Numeric(r) => /\ r.percent_used.t = "float"
                         /\ r.percent_remaining.t = "float"
                         /\ InUnitInterval(r.percent_used.v)
                         /\ InUnitInterval(r.percent_remaining.v)

\* whether a Flags field of sacctmgr, a comma list, names NoDecay
HasNoDecay(flags) ==
    \E j \in 1..Len(SplitOn(flags, ",")) :
        SplitOn(flags, ",")[j] = SACCTMGR_QOS_NODECAY_FLAG
NoDecayNames == {QosOutput[j].Name : j \in {k \in 1..Len(QosOutput) :
                                              HasNoDecay(QosOutput[k].Flags)}}

\* the QoS name a record's QOS field spells, <<>> when the field is empty or
\* absent
QosText(line) ==
    LET record == SplitOn(line, " ")
        cfg    == IF IndexOf(record, cAccount) = 0 THEN EmptyDict
                  ELSE Configs(record, IndexOf(record, cAccount))
        val    == IF cQOS \in DOMAIN cfg THEN cfg[cQOS] ELSE <<>>
    IN  IF IndexOf(val, "(") = 0 THEN val
        ELSE SubSeq(val, 1, IndexOf(val, "(") - 1)

\* C12: get_qos returns exactly the QoS whose flag list names NoDecay, alone
\* or among other flags, and a record of such a QoS never fails to find its
\* description.
C12_NoDecayListed ==
    /\ pc # "get_qos" => DOMAIN qos = NoDecayNames
    /\ (AtRecord /\ QosText(usage_qos_raw[idx]) \in NoDecayNames) => exc # "KeyError"

\* C13: every user row carries the account of the row that holds it.
C13_UserAccountIsRowAccount ==
    \A r \in Rows : use_sacct =>
        \A j \in 1..Len(r.users) : r.users[j].account = r.account

\* the used amount a record's GrpTRESMins field spells for billing, <<>> when
\* the field gives none
UsedText(line) ==
    LET record == SplitOn(line, " ")
        cfg    == IF IndexOf(record, cAccount) = 0 THEN EmptyDict
                  ELSE Configs(record, IndexOf(record, cAccount))
        grp    == IF cGrpTRESMins \in DOMAIN cfg THEN cfg[cGrpTRESMins] ELSE <<>>
        parts  == SplitOn(grp, ",")
        mine   == SelectSeq(parts, LAMBDA x :
                      /\ Len(x) > Len(cbilling)
                      /\ SubSeq(x, 1, Len(cbilling) + 1) = cbilling \o <<"=">>)
    IN  IF Len(mine) = 0 THEN <<>>
        ELSE LET val == RemoveChar(Split1(mine[Len(mine)], "=")[2], ")")
             IN  IF IndexOf(val, "(") = 0 THEN <<>>
                 ELSE SubSeq(val, IndexOf(val, "(") + 1, Len(val))

\* the row r holds what the record spells: its QoS name, its limit and, in
\* coarse mode, its used amount
RowOfRecord(r, line) ==
    /\ r.account = QosText(line)
    /\ \/ LimitText(line) = cN /\ Unlimited(r)
       \/ IsInt(LimitText(line)) /\ r.su_alloc = Int_(ToInt(LimitText(line)))
    /\ ~use_sacct => IsInt(UsedText(line)) /\ r.su_used = Int_(ToInt(UsedText(line)))

\* C14: the row the loop has just appended holds the name, the limit and the
\* used amount of the record it was built for, never those of an earlier
\* record.
C14_RowFromOwnRecord ==
    (pc = "loop" /\ idx > 1) => RowOfRecord(usage[idx - 1], usage_qos_raw[idx - 1])

\* C15: in per-user mode a user's percent_used is never a division by zero:
\* every QoS with a user entry in detail_usage has a used amount above 0.
C15_UsedAboveZero ==
    /\ (use_sacct /\ pc = "records") =>
          \A q \in DOMAIN detail_usage :
              Len(detail_usage[q]) > 0 => DetailUsed(detail_usage[q]) > 0
    /\ (use_sacct /\ AtRecord /\ ~ZeroLimit(usage_qos_raw[idx])) =>
          exc # "ZeroDivisionError"

RECURSIVE SumSuUsed(_)
SumSuUsed(users) ==
    IF Len(users) = 0 THEN 0 ELSE users[1].su_used + SumSuUsed(Tail(users))

\* the users' percent_used added up in the order of the list
RECURSIVE PercentSum(_, _)
PercentSum(users, val) ==
    IF Len(users) = 0 THEN val
    ELSE PercentSum(Tail(users), FAdd(val, users[1].percent_used))

\* 2^-30, below the 1e-9 the percentages are compared within
Tolerance == [neg |-> FALSE, mag |-> {0 - 30}]

\* what holds of a row r with users, whatever the rounding of the quotients:
\* su_used is the ceiling of the sum of the users' raw billing (summed in the
\* order detail_usage holds them), no user's su_used exceeds it, the users'
\* su_used add up to at least it, every user's percent_used lies between 0
\* and 1
CeilingSums(r) ==
    /\ r.su_used = Int_(Ceil(SumBilling(detail_usage[r.account], FZero)))
    /\ {r.users[j].user : j \in 1..Len(r.users)}
          = {detail_usage[r.account][j].user : j \in 1..Len(detail_usage[r.account])}
    /\ \A j \in 1..Len(r.users) :
          /\ r.users[j].su_used <= r.su_used.v
          /\ InUnitInterval(r.users[j].percent_used)
    /\ SumSuUsed(r.users) >= r.su_used.v

\* C16 as stated: in per-user mode, for every row with at least one user,
\* su_used is the ceiling of the sum of the users' raw billing, no user's
\* su_used exceeds it, the users' su_used add up to at least it, and the
\* users' percent_used lie between 0 and 1 and add up to at least 1.
C16_PercentsReachOne ==
    \A r \in Rows : (use_sacct /\ Len(r.users) > 0) =>
        /\ CeilingSums(r)
        /\ ~FGreater(FOne, PercentSum(r.users, FZero))

\* C16, amended: the same, the users' percent_used adding up to at least 1
\* only within the tolerance, each quotient being rounded.
C16_CeilingSums ==
    \A r \in Rows : (use_sacct /\ Len(r.users) > 0) =>
        /\ CeilingSums(r)
        /\ FGreater(PercentSum(r.users, FZero), FSub(FOne, Tolerance))

\* C16 witness: a returned row with two users whose su_used add up to more
\* than the row's su_used
C16_Witness ==
    /\ Returned
    /\ use_sacct
    /\ \E r \in Rows : Len(r.users) = 2 /\ SumSuUsed(r.users) > r.su_used.v

\* the columns that show an allocation or what remains of it
AllocationKeys == {"allocation", "allocation_system", "allocation_compute",
                   "allocation_gpu", "allocation_memory"}
RemainingKeys == {"remaining", "remaining_system", "remaining_percent",
                  "remaining_compute", "remaining_gpu", "remaining_memory"}
IsNumber(x) == x.t \in {"int", "float"}

\* C17: every row holds the key of every entry of FIELD_CONFIGS and every
\* user row the key of every entry of FIELD_PER_USER_CONFIGS; in a row with a
\* numeric allocation every field formatted as a number holds a number; in an
\* unlimited row the allocation and remaining fields hold strings.
C17_FieldsPresent ==
    \A r \in Rows :
        /\ \A key \in DOMAIN FIELD_CONFIGS : FIELD_CONFIGS[key].field \in DOMAIN r
        /\ Numeric(r) =>
              \A key \in DOMAIN FIELD_CONFIGS :
                  FIELD_CONFIGS[key].field_disp # "" => IsNumber(r[FIELD_CONFIGS[key].field])
        /\ Unlimited(r) =>
              \A key \in AllocationKeys \cup RemainingKeys :
                  r[FIELD_CONFIGS[key].field].t = "str"
        /\ use_sacct =>
              \A j \in 1..Len(r.users) : \A key \in DOMAIN FIELD_PER_USER_CONFIGS :
                  FIELD_PER_USER_CONFIGS[key].field \in DOMAIN r.users[j]

\* C17 witness: a per-user report is returned with a numeric row that has
\* users and an unlimited row
C17_Witness ==
    /\ Returned
    /\ use_sacct
    /\ \E r \in Rows : Numeric(r) /\ Len(r.users) > 0
    /\ \E r \in Rows : Unlimited(r)

====
